---- MODULE Spec2Model ----
(***************************************************************************)
(* A model of the transaction list view (TransactionList.tsx) and of the   *)
(* categories GET route of finance-track.                                  *)
(*                                                                         *)
(* Strings that the code inspects character by character (category,        *)
(* description, search term, CSV text) are sequences of one-character      *)
(* strings.  A Thai word of the source is written as one symbol in         *)
(* brackets, e.g. "[wan-ni]": none of them holds a comma, a quote or a     *)
(* line break.  A nullable value is a sequence of length 0 (null) or 1.    *)
(* A date is a day number: day 0 is Saturday 2025-02-01.                   *)
(***************************************************************************)
EXTENDS Integers, Sequences, FiniteSets, TLC

VARIABLES
    transactions,         \* store: the fetched list (line 104)
    loading,              \* store: transactionsLoading (line 104)
    filters,              \* useState, lines 109-115
    currentPage,          \* useState, line 118
    isLoading,            \* useState, line 119
    deleteId,             \* useState, line 121
    selectedTransaction,  \* useState, line 123
    today,                \* the day `new Date()` returns (lines 192, 234)
    deletions,            \* number of deleteTransaction calls made so far
    storeCall,            \* the call the last step made on the store, if any
    download,             \* the CSV text the last step handed to the browser, if any
    routePc,              \* categories route: position inside GET
    routeCalls,           \* categories route: calls the running request has made
    routeResponses,       \* categories route: responses the request has produced
    routeEscaped,         \* categories route: an error left the handler
    routeSeen,            \* categories route: what the request's awaits have given
    served                \* categories route: requests completed

vars == <<transactions, loading, filters, currentPage, isLoading, deleteId,
          selectedTransaction, today, deletions, storeCall, download,
          routePc, routeCalls, routeResponses, routeEscaped, routeSeen, served>>

uiVars == <<transactions, loading, filters, currentPage, isLoading, deleteId,
            selectedTransaction, today, deletions, storeCall, download>>

routeVars == <<routePc, routeCalls, routeResponses, routeEscaped, routeSeen, served>>

(***************************************************************************)
(* Bounds of the model.                                                    *)
(***************************************************************************)
MaxTx == 11         \* transactions the backend holds in Spec
MaxView == 4        \* transactions the backend holds in SpecView
MaxDeletes == 1     \* deleteTransaction calls in one behaviour
MaxStrLen == 2      \* length of a category or description in SpecCsv
MaxRows == 2        \* transactions exported in SpecCsv
MaxRequests == 4    \* requests the categories route serves
MaxCatRows == 3     \* rows the categories query returns
MaxPages == 7       \* pages of the list in SpecPages

Null == <<>>
Some(x) == <<x>>

Min(a, b) == IF a <= b THEN a ELSE b
Max(a, b) == IF a >= b THEN a ELSE b

(***************************************************************************)
(* Dates (date-fns).  Day 0 is Saturday 2025-02-01.                        *)
(***************************************************************************)
MonthLengths == <<28, 31, 30, 31, 30, 31>>   \* February .. July 2025
MonthNames == <<"February", "March", "April", "May", "June", "July">>

RECURSIVE MonthSlot(_, _)
\* index into MonthLengths of the month holding day d, counted from slot i
MonthSlot(d, i) ==
    IF i >= Len(MonthLengths) \/ d < MonthLengths[i] THEN i
    ELSE MonthSlot(d - MonthLengths[i], i + 1)

RECURSIVE DayInMonth(_, _)
DayInMonth(d, i) ==
    IF i >= Len(MonthLengths) \/ d < MonthLengths[i] THEN d + 1
    ELSE DayInMonth(d - MonthLengths[i], i + 1)

getFullYear(d) == 2025
getMonth(d) == MonthSlot(d, 1) + 1          \* 1 = January
getDate(d) == DayInMonth(d, 1)
getDay(d) == (d + 6) % 7                    \* 0 = Sunday, as in JavaScript

\* parseISO(tx.date): the local day of the transaction
parseISO(date) == date

startOfWeek(d, weekStartsOn) == d - ((getDay(d) - weekStartsOn + 7) % 7)

isToday(d, now) == d = now
isYesterday(d, now) == d = now - 1
isSameWeek(a, b, weekStartsOn) == startOfWeek(a, weekStartsOn) = startOfWeek(b, weekStartsOn)
isSameMonth(a, b) == getFullYear(a) = getFullYear(b) /\ getMonth(a) = getMonth(b)

Digit(n) == CASE n = 0 -> "0" [] n = 1 -> "1" [] n = 2 -> "2" [] n = 3 -> "3"
              [] n = 4 -> "4" [] n = 5 -> "5" [] n = 6 -> "6" [] n = 7 -> "7"
              [] n = 8 -> "8" [] n = 9 -> "9"

RECURSIVE Digits(_)
\* Number.prototype.toString of a non-negative integer
Digits(n) == IF n < 10 THEN <<Digit(n)>> ELSE Digits(n \div 10) \o <<Digit(n % 10)>>

Pad2(n) == IF n < 10 THEN <<"0">> \o Digits(n) ELSE Digits(n)

\* format(date, 'yyyy-MM-dd')
formatYMD(d) == Digits(getFullYear(d)) \o <<"-">> \o Pad2(getMonth(d)) \o <<"-">> \o Pad2(getDate(d))

\* format(date, 'MMMM yyyy'), a group title
formatMonthYear(d) == MonthNames[MonthSlot(d, 1)] \o " 2025"

(***************************************************************************)
(* Strings (String.prototype).                                             *)
(***************************************************************************)
LowerChar(c) == CASE c = "A" -> "a" [] c = "F" -> "f" [] c = "O" -> "o"
                  [] c = "P" -> "p" [] c = "Y" -> "y" [] OTHER -> c

toLowerCase(s) == [i \in 1..Len(s) |-> LowerChar(s[i])]

\* s.includes(t)
includes(s, t) ==
    \E i \in 0..(Len(s) - Len(t)) : \A j \in 1..Len(t) : s[i + j] = t[j]

RECURSIVE replaceQuotes_FirstOnly(_)
\* replaceQuotes without the g flag: only the first quote is doubled
replaceQuotes_FirstOnly(s) ==
    IF s = <<>> THEN <<>>
    ELSE IF Head(s) = "\"" THEN <<"\"", "\"">> \o Tail(s)
    ELSE <<Head(s)>> \o replaceQuotes_FirstOnly(Tail(s))

RECURSIVE replaceQuotes(_)
\* s.replace(/"/g, '""')
replaceQuotes(s) ==
    IF s = <<>> THEN <<>>
    ELSE (IF Head(s) = "\"" THEN <<"\"", "\"">> ELSE <<Head(s)>>) \o replaceQuotes(Tail(s))

(***************************************************************************)
(* The transactions the backend can hold.  Transaction id has the          *)
(* attributes the tables give it (each table is read cyclically).          *)
(***************************************************************************)
Food == <<"F", "o", "o", "d">>
Pay == <<"P", "a", "y">>
Fuel == <<"f", "u", "e", "l">>
AllCategory == <<"a", "l", "l">>

TypeTable == <<"expense", "income", "expense">>
CategoryTable == <<Food, Pay, Food, Fuel>>
DescriptionTable == <<Some(<<"P", "A", "Y">>), Null, Some(<<>>), Some(<<"f", "o", "o", "d">>)>>
DayTable == <<33, 30, 31, 26, 30, 29, 36, 27, 5, 32>>
AmountTable == <<350, 50, 350, 120>>

Cyc(table, id) == table[((id - 1) % Len(table)) + 1]

\* a stored transaction; the fields of every record of this module are written in
\* the order TLC keeps them in, so that workers sharing a value never reorder it
Tx(id) == [date |-> Cyc(DayTable, id),
           id |-> id,
           type |-> Cyc(TypeTable, id),
           category |-> Cyc(CategoryTable, id),
           description |-> Cyc(DescriptionTable, id),
           amount |-> Cyc(AmountTable, id)]

\* the backend's rows with ids in S, in id order
Rows(S, n) == SelectSeq([id \in 1..n |-> Tx(id)], LAMBDA tx : tx.id \in S)

TodayDays == 29..35          \* Sunday 2025-03-02 .. Saturday 2025-03-08
PagedTodayDays == {32, 35}   \* Wednesday 2025-03-05, Saturday 2025-03-08

(***************************************************************************)
(* processedTransactions, lines 167-223.                                   *)
(***************************************************************************)
\* PassesFilters with the search comparing the text as stored, without toLowerCase
PassesFilters_CaseSensitive(tx, f, now) ==
    LET categoryMatch == includes(tx.category, f.searchTerm)
        descriptionMatch ==
            /\ tx.description # Null
            /\ tx.description[1] # <<>>
            /\ includes(tx.description[1], f.searchTerm)
        txDate == parseISO(tx.date)
    IN  IF f.type # "all" /\ tx.type # f.type THEN FALSE
        ELSE IF f.category # AllCategory /\ tx.category # f.category THEN FALSE
        ELSE IF f.searchTerm # <<>> /\ ~categoryMatch /\ ~descriptionMatch THEN FALSE
        ELSE IF f.dateRange = "today" THEN isToday(txDate, now)
        ELSE IF f.dateRange = "week" THEN isSameWeek(txDate, now, 0)
        ELSE IF f.dateRange = "month" THEN isSameMonth(txDate, now)
        ELSE TRUE

\* the callback of transactions.filter, lines 174-202
PassesFilters(tx, f, now) ==
    LET searchLower == toLowerCase(f.searchTerm)
        categoryMatch == includes(toLowerCase(tx.category), searchLower)
        descriptionMatch ==
            /\ tx.description # Null
            /\ tx.description[1] # <<>>
            /\ includes(toLowerCase(tx.description[1]), searchLower)
        txDate == parseISO(tx.date)
    IN  IF f.type # "all" /\ tx.type # f.type THEN FALSE
        ELSE IF f.category # AllCategory /\ tx.category # f.category THEN FALSE
        ELSE IF f.searchTerm # <<>> /\ ~categoryMatch /\ ~descriptionMatch THEN FALSE
        ELSE IF f.dateRange = "today" THEN isToday(txDate, now)
        ELSE IF f.dateRange = "week" THEN isSameWeek(txDate, now, 0)
        ELSE IF f.dateRange = "month" THEN isSameMonth(txDate, now)
        ELSE TRUE

\* Compare with the operands of 'highest' the wrong way round
Compare_HighestAscending(sortOption, a, b) ==
    CASE sortOption = "newest" -> b.date - a.date
      [] sortOption = "oldest" -> a.date - b.date
      [] sortOption = "highest" -> a.amount - b.amount
      [] sortOption = "lowest" -> a.amount - b.amount
      [] OTHER -> 0

\* the comparators of sorted.sort, lines 207-220
Compare(sortOption, a, b) ==
    CASE sortOption = "newest" -> b.date - a.date
      [] sortOption = "oldest" -> a.date - b.date
      [] sortOption = "highest" -> b.amount - a.amount
      [] sortOption = "lowest" -> a.amount - b.amount
      [] OTHER -> 0

\* e goes behind the last element that does not sort after it (Array.prototype.sort is
\* stable)
InsertSorted(sorted, e, sortOption) ==
    LET before == {i \in 1..Len(sorted) : Compare(sortOption, sorted[i], e) <= 0}
        k == IF before = {} THEN 0 ELSE CHOOSE i \in before : \A j \in before : j <= i
    IN  SubSeq(sorted, 1, k) \o <<e>> \o SubSeq(sorted, k + 1, Len(sorted))

RECURSIVE SortRun(_, _, _, _, _)
\* txs[lo..hi] inserted one after the other into sorted
SortRun(sorted, txs, lo, hi, sortOption) ==
    IF lo > hi THEN sorted
    ELSE IF lo = hi THEN InsertSorted(sorted, txs[lo], sortOption)
    ELSE LET mid == (lo + hi) \div 2
             left == SortRun(sorted, txs, lo, mid, sortOption)
         IN  IF Len(left) < 0 THEN left ELSE SortRun(left, txs, mid + 1, hi, sortOption)

SortTxs(txs, sortOption) == SortRun(<<>>, txs, 1, Len(txs), sortOption)

FilterTxs(txs, f, now) == SelectSeq(txs, LAMBDA tx : PassesFilters(tx, f, now))

ProcessedOf(txs, isStoreLoading, f, now) ==
    IF isStoreLoading \/ txs = <<>> THEN <<>>
    ELSE SortTxs(FilterTxs(txs, f, now), f.sortOption)

processedTransactions == ProcessedOf(transactions, loading, filters, today)

(***************************************************************************)
(* paginatedData, lines 226-271.                                           *)
(***************************************************************************)
itemsPerPage == 10

TitleToday == "[wan-ni]"
TitleYesterday == "[muea-wan]"
TitleThisWeek == "[sapda-ni]"
TitleThisMonth == "[duean-ni]"

\* groupTitle with the week looked at before yesterday
groupTitle_WeekFirst(txDate, now) ==
    IF isToday(txDate, now) THEN TitleToday
    ELSE IF isSameWeek(txDate, now, 1) THEN TitleThisWeek
    ELSE IF isYesterday(txDate, now) THEN TitleYesterday
    ELSE IF isSameMonth(txDate, now) THEN TitleThisMonth
    ELSE formatMonthYear(txDate)

\* lines 243-253
groupTitle(txDate, now) ==
    IF isToday(txDate, now) THEN TitleToday
    ELSE IF isYesterday(txDate, now) THEN TitleYesterday
    ELSE IF isSameWeek(txDate, now, 1) THEN TitleThisWeek
    ELSE IF isSameMonth(txDate, now) THEN TitleThisMonth
    ELSE formatMonthYear(txDate)

\* PageSlice with startIndex taken from the page number itself
PageSlice_OffByOne(processed, page) ==
    LET startIndex == page * itemsPerPage
        from == Max(0, Min(startIndex, Len(processed)))
        to == Max(from, Min(startIndex + itemsPerPage, Len(processed)))
    IN  [i \in 1..(to - from) |-> processed[from + i]]

\* processedTransactions.slice(startIndex, startIndex + itemsPerPage), lines 231-232
PageSlice(processed, page) ==
    LET startIndex == (page - 1) * itemsPerPage
        from == Max(0, Min(startIndex, Len(processed)))
        to == Max(from, Min(startIndex + itemsPerPage, Len(processed)))
    IN  [i \in 1..(to - from) |-> processed[from + i]]

\* one pass of paginatedTxs.forEach on the map's entries (lines 239-260); a Map
\* keeps its keys in insertion order
AddToGroups(groupMap, tx, now) ==
    LET title == groupTitle(parseISO(tx.date), now)
    IN  IF \E i \in 1..Len(groupMap) : groupMap[i].title = title
        THEN [i \in 1..Len(groupMap) |->
                 IF groupMap[i].title = title
                 THEN [groupMap[i] EXCEPT !.transactions = Append(@, tx)]
                 ELSE groupMap[i]]
        ELSE Append(groupMap,
                    [transactions |-> <<tx>>, date |-> parseISO(tx.date), title |-> title])

RECURSIVE GroupMapOf(_, _)
GroupMapOf(txs, now) ==
    IF txs = <<>> THEN <<>>
    ELSE AddToGroups(GroupMapOf(SubSeq(txs, 1, Len(txs) - 1), now), txs[Len(txs)], now)

\* the comparator of groupArray.sort, line 264
CompareGroups(a, b) == b.date - a.date

RECURSIVE InsertGroup(_, _)
InsertGroup(sorted, g) ==
    IF sorted = <<>> THEN <<g>>
    ELSE IF CompareGroups(sorted[Len(sorted)], g) <= 0 THEN Append(sorted, g)
    ELSE Append(InsertGroup(SubSeq(sorted, 1, Len(sorted) - 1), g), sorted[Len(sorted)])

RECURSIVE SortGroups(_)
SortGroups(gs) ==
    IF gs = <<>> THEN <<>>
    ELSE InsertGroup(SortGroups(SubSeq(gs, 1, Len(gs) - 1)), gs[Len(gs)])

PaginatedOf(processed, page, now) ==
    IF processed = <<>> THEN [groups |-> <<>>, totalPages |-> 0, totalItems |-> 0]
    ELSE [groups |-> SortGroups(GroupMapOf(PageSlice(processed, page), now)),
          totalPages |-> (Len(processed) + itemsPerPage - 1) \div itemsPerPage,
          totalItems |-> Len(processed)]

paginatedData == PaginatedOf(processedTransactions, currentPage, today)

RECURSIVE Flatten(_)
\* the cards in the order the groups are rendered, lines 738-753
Flatten(groups) ==
    IF groups = <<>> THEN <<>>
    ELSE groups[1].transactions \o Flatten(Tail(groups))

\* the transaction cards on screen: none while a skeleton is shown (lines 422, 709)
visibleRows ==
    IF loading \/ isLoading THEN <<>> ELSE Flatten(paginatedData.groups)

(***************************************************************************)
(* The store (useTransactionStore, line 104).                              *)
(***************************************************************************)
RemoveId(txs, id) == SelectSeq(txs, LAMBDA tx : tx.id # id)

NoOutput == /\ storeCall' = Null
            /\ download' = Null

\* useEffect, lines 147-151: the session's user id is set or changes
fetchTransactions ==
    /\ ~loading
    /\ loading' = TRUE
    /\ storeCall' = Some([id |-> 0, op |-> "fetchTransactions"])
    /\ download' = Null
    /\ UNCHANGED <<transactions, filters, currentPage, isLoading, deleteId,
                   selectedTransaction, today, deletions>>
    /\ UNCHANGED routeVars

\* the backend answers with rows
FetchDone(rows) ==
    /\ loading
    /\ transactions' = rows
    /\ loading' = FALSE
    /\ NoOutput
    /\ UNCHANGED <<filters, currentPage, isLoading, deleteId, selectedTransaction,
                   today, deletions>>
    /\ UNCHANGED routeVars

(***************************************************************************)
(* The component's handlers.                                               *)
(***************************************************************************)
\* The details Dialog (line 869) and the delete AlertDialog (line 961) are modal:
\* while one is open the page behind it takes no input.
NoDialog == deleteId = Null /\ selectedTransaction = Null

\* the page is rendered, not the skeleton of line 422
PageShown == ~loading /\ NoDialog

\* the list and the footer are rendered, lines 709, 724, 766
ListShown == PageShown /\ ~isLoading /\ processedTransactions # <<>>

\* lines 161-164
uniqueCategories ==
    IF transactions = <<>> THEN {AllCategory}
    ELSE {AllCategory} \cup {transactions[i].category : i \in 1..Len(transactions)}

DefaultFilters == [type |-> "all", category |-> AllCategory, searchTerm |-> <<>>,
                   dateRange |-> "all", sortOption |-> "newest"]

\* updateFilter without the setCurrentPage(1) of line 132
updateFilter_KeepsPage(key, value) ==
    /\ PageShown
    /\ filters' = [filters EXCEPT ![key] = value]
    /\ currentPage' = currentPage
    /\ isLoading' = TRUE
    /\ NoOutput
    /\ UNCHANGED <<transactions, loading, deleteId, selectedTransaction, today, deletions>>
    /\ UNCHANGED routeVars

\* lines 130-133; the effect of lines 154-158 runs because filters is a new object
updateFilter(key, value) ==
    /\ PageShown
    /\ filters' = [filters EXCEPT ![key] = value]
    /\ currentPage' = 1
    /\ isLoading' = TRUE
    /\ NoOutput
    /\ UNCHANGED <<transactions, loading, deleteId, selectedTransaction, today, deletions>>
    /\ UNCHANGED routeVars

\* resetFilters that leaves the sort option as it is
resetFilters_KeepsSort ==
    /\ PageShown
    /\ filters' = [DefaultFilters EXCEPT !.sortOption = filters.sortOption]
    /\ currentPage' = 1
    /\ isLoading' = TRUE
    /\ NoOutput
    /\ UNCHANGED <<transactions, loading, deleteId, selectedTransaction, today, deletions>>
    /\ UNCHANGED routeVars

\* lines 136-145
resetFilters ==
    /\ PageShown
    /\ filters' = DefaultFilters
    /\ currentPage' = 1
    /\ isLoading' = TRUE
    /\ NoOutput
    /\ UNCHANGED <<transactions, loading, deleteId, selectedTransaction, today, deletions>>
    /\ UNCHANGED routeVars

\* the timer of line 156
LoadingTimer ==
    /\ isLoading
    /\ isLoading' = FALSE
    /\ NoOutput
    /\ UNCHANGED <<transactions, loading, filters, currentPage, deleteId,
                   selectedTransaction, today, deletions>>
    /\ UNCHANGED routeVars

SetPage(p) ==
    /\ currentPage' = p
    /\ NoOutput
    /\ UNCHANGED <<transactions, loading, filters, isLoading, deleteId,
                   selectedTransaction, today, deletions>>
    /\ UNCHANGED routeVars

\* lines 774-782
PrevPage ==
    /\ currentPage # 1
    /\ ListShown
    /\ paginatedData.totalPages > 1
    /\ SetPage(Max(1, currentPage - 1))

\* lines 813-821
NextPage ==
    /\ ListShown
    /\ paginatedData.totalPages > 1
    /\ ~(currentPage >= paginatedData.totalPages)
    /\ SetPage(Min(paginatedData.totalPages, currentPage + 1))

\* pageToShow that always numbers the buttons from 1
pageToShow_FromOne(i, totalPages, page) == i + 1

\* lines 786-795
pageToShow(i, totalPages, page) ==
    IF totalPages <= 5 THEN i + 1
    ELSE IF page <= 3 THEN i + 1
    ELSE IF page >= totalPages - 2 THEN totalPages - 4 + i
    ELSE page - 2 + i

\* line 784: the indexes of the page-number buttons on screen
PageButtons ==
    IF ListShown /\ paginatedData.totalPages > 1
    THEN 0..(Min(5, paginatedData.totalPages) - 1)
    ELSE {}

\* lines 798-809: the i-th page-number button
GoToPage(i) == SetPage(pageToShow(i, paginatedData.totalPages, currentPage))

\* the cards that can be pressed: those on screen, and none behind a dialog
PressableRows == IF PageShown THEN visibleRows ELSE <<>>

\* PressDeleteOnRow deleting at once, with no dialog
PressDeleteOnRow_NoConfirm(tx) ==
    /\ storeCall' = Some([id |-> tx.id, op |-> "deleteTransaction"])
    /\ transactions' = RemoveId(transactions, tx.id)
    /\ download' = Null
    /\ UNCHANGED <<loading, filters, currentPage, isLoading, deleteId,
                   selectedTransaction, today, deletions>>
    /\ UNCHANGED routeVars

\* the trash button of a card, lines 408-415
PressDeleteOnRow(tx) ==
    /\ deleteId' = Some(tx.id)
    /\ NoOutput
    /\ UNCHANGED <<transactions, loading, filters, currentPage, isLoading,
                   selectedTransaction, today, deletions>>
    /\ UNCHANGED routeVars

\* the info button of a card, lines 399-406
OpenDetails(tx) ==
    /\ selectedTransaction' = Some(tx)
    /\ NoOutput
    /\ UNCHANGED <<transactions, loading, filters, currentPage, isLoading,
                   deleteId, today, deletions>>
    /\ UNCHANGED routeVars

\* lines 869, 938-944
CloseDetails ==
    /\ ~loading
    /\ selectedTransaction # Null
    /\ selectedTransaction' = Null
    /\ NoOutput
    /\ UNCHANGED <<transactions, loading, filters, currentPage, isLoading,
                   deleteId, today, deletions>>
    /\ UNCHANGED routeVars

\* the delete button of the details modal, lines 945-955
PressDeleteInDetails ==
    /\ ~loading
    /\ selectedTransaction # Null
    /\ deleteId' = Some(selectedTransaction[1].id)
    /\ selectedTransaction' = Null
    /\ NoOutput
    /\ UNCHANGED <<transactions, loading, filters, currentPage, isLoading,
                   today, deletions>>
    /\ UNCHANGED routeVars

\* Cancel, Escape or a click outside: onOpenChange of line 961
CloseDeleteDialog ==
    /\ ~loading
    /\ deleteId # Null
    /\ deleteId' = Null
    /\ NoOutput
    /\ UNCHANGED <<transactions, loading, filters, currentPage, isLoading,
                   selectedTransaction, today, deletions>>
    /\ UNCHANGED routeVars

\* handleDelete, lines 291-301; ok tells whether deleteTransaction resolved
handleDelete(id, ok) ==
    /\ storeCall' = Some([id |-> id, op |-> "deleteTransaction"])
    /\ deletions' = deletions + 1
    /\ download' = Null
    /\ IF ok
       THEN /\ transactions' = RemoveId(transactions, id)
            /\ deleteId' = Null
            /\ selectedTransaction' = Null
       ELSE UNCHANGED <<transactions, deleteId, selectedTransaction>>
    /\ UNCHANGED <<loading, filters, currentPage, isLoading, today>>
    /\ UNCHANGED routeVars

\* the confirm button of the delete dialog, lines 971-981
ConfirmDelete(ok) ==
    /\ ~loading
    /\ deleteId # Null
    /\ deletions < MaxDeletes
    /\ handleDelete(deleteId[1], ok)

(***************************************************************************)
(* exportCSV, lines 304-330.                                               *)
(***************************************************************************)
\* line 311
csvHeader == <<"[wan-thi]", ",", "[praphet]", ",", "[muat-mu]", ",", "[rai-la-iat]", ",",
               "[chamnuan-ngoen]", "\n">>

\* line 316
escapedDescription(tx) ==
    <<"\"">> \o (IF tx.description = Null THEN <<>> ELSE replaceQuotes(tx.description[1]))
             \o <<"\"">>

\* line 317
escapedCategory(tx) == <<"\"">> \o replaceQuotes(tx.category) \o <<"\"">>

\* the callback of processedTransactions.map, lines 312-320
csvRow(tx) ==
    formatYMD(parseISO(tx.date)) \o <<",">>
        \o <<IF tx.type = "income" THEN "[rai-rap]" ELSE "[rai-chai]">> \o <<",">>
        \o escapedCategory(tx) \o <<",">>
        \o escapedDescription(tx) \o <<",">>
        \o Digits(tx.amount)

RECURSIVE JoinLines(_)
\* rows.join('\n')
JoinLines(rows) ==
    IF rows = <<>> THEN <<>>
    ELSE IF Len(rows) = 1 THEN rows[1]
    ELSE rows[1] \o <<"\n">> \o JoinLines(Tail(rows))

\* exportedTransactions taken from the page on screen
exportedTransactions_PageOnly == PageSlice(processedTransactions, currentPage)

\* the rows exportCSV maps over, line 312
exportedTransactions == processedTransactions

\* the text of the Blob, line 323
csvText(txs) == csvHeader \o JoinLines([i \in 1..Len(txs) |-> csvRow(txs[i])])

exportCSV ==
    /\ PageShown
    /\ download' = (IF processedTransactions = <<>> THEN Null
                    ELSE Some(csvText(exportedTransactions)))
    /\ storeCall' = Null
    /\ UNCHANGED <<transactions, loading, filters, currentPage, isLoading, deleteId,
                   selectedTransaction, today, deletions>>
    /\ UNCHANGED routeVars

(***************************************************************************)
(* A reader of CSV text with standard quoting (RFC 4180): a field in       *)
(* double quotes may hold commas and line breaks, and "" inside it is one  *)
(* quote.  The result is the sequence of records, each a sequence of       *)
(* fields.                                                                 *)
(***************************************************************************)
\* the reader before any character: mode is "start" (at the start of a field),
\* "plain", "quoted" or "quote" (a quote seen inside a quoted field)
CsvStart == [mode |-> "start", field |-> <<>>, record |-> <<>>, records |-> <<>>]

\* the reader takes the character c
CsvStep(st, c) ==
    IF st.mode = "quoted"
    THEN IF c = "\""
         THEN [st EXCEPT !.mode = "quote"]
         ELSE [st EXCEPT !.field = Append(@, c)]
    ELSE IF c = "\"" /\ st.mode = "quote"
    THEN [st EXCEPT !.mode = "quoted", !.field = Append(@, c)]
    ELSE IF c = "\"" /\ st.mode = "start"
    THEN [st EXCEPT !.mode = "quoted"]
    ELSE IF c = ","
    THEN [st EXCEPT !.mode = "start", !.field = <<>>, !.record = Append(@, st.field)]
    ELSE IF c = "\n"
    THEN [mode |-> "start", field |-> <<>>, record |-> <<>>,
          records |-> Append(st.records, Append(st.record, st.field))]
    ELSE [st EXCEPT !.mode = "plain", !.field = Append(@, c)]

RECURSIVE CsvRun(_, _, _, _)
\* the reader takes text[lo..hi], the left half before the right one (no mode is "",
\* the test only makes the left half be read first)
CsvRun(st, text, lo, hi) ==
    IF lo > hi THEN st
    ELSE IF lo = hi THEN CsvStep(st, text[lo])
    ELSE LET mid == (lo + hi) \div 2
             left == CsvRun(st, text, lo, mid)
         IN  IF left.mode = "" THEN left ELSE CsvRun(left, text, mid + 1, hi)

\* end of text closes the last record
ParseCsv(text) ==
    LET st == CsvRun(CsvStart, text, 1, Len(text))
    IN  Append(st.records, Append(st.record, st.field))

(***************************************************************************)
(* GET of the categories route (app/api/categories/route.ts).              *)
(***************************************************************************)
CategoryNames == <<"Bills", "Food", "Fuel", "Pay", "Rent">>

RECURSIVE CategoryRows(_, _)
\* the rows with names in S, ordered by name as .order('name') asks
CategoryRows(S, n) ==
    IF n = 0 THEN <<>>
    ELSE CategoryRows(S, n - 1) \o (IF n \in S THEN <<[name |-> CategoryNames[n]]>> ELSE <<>>)

\* what awaiting the query gives: {data, error}, or a rejection
QueryResults ==
    {[outcome |-> "data", data |-> Some(CategoryRows(S, Len(CategoryNames)))] :
        S \in {T \in SUBSET (1..Len(CategoryNames)) : Cardinality(T) <= MaxCatRows}}
    \cup {[outcome |-> "data", data |-> Null],
          [outcome |-> "error", data |-> Null],
          [outcome |-> "rejected", data |-> Null]}

\* NextResponse.json(data || []), line 14
OkResponse(data) ==
    [rows |-> (IF data = Null THEN <<>> ELSE data[1]), status |-> 200, error |-> ""]

\* line 17
FailResponse == [rows |-> <<>>, status |-> 500, error |-> "Failed to fetch categories"]

NothingSeen == [client |-> "pending", result |-> Null]

\* a request arrives, line 5
GETStart ==
    /\ routePc = "idle"
    /\ served < MaxRequests
    /\ routePc' = "createClient"
    /\ routeCalls' = <<>>
    /\ routeResponses' = <<>>
    /\ routeEscaped' = FALSE
    /\ routeSeen' = NothingSeen
    /\ UNCHANGED served
    /\ UNCHANGED uiVars

\* RouteCatch throwing the error on instead of answering
RouteCatch_Rethrow ==
    /\ routeEscaped' = TRUE
    /\ routePc' = "idle"
    /\ served' = served + 1
    /\ UNCHANGED routeResponses

\* the catch block, lines 15-18
RouteCatch ==
    /\ routeResponses' = Append(routeResponses, FailResponse)
    /\ routeEscaped' = FALSE
    /\ routePc' = "idle"
    /\ served' = served + 1

\* line 7; ok tells whether createSupabaseServerClient resolved
GETCreateClient(ok) ==
    /\ routePc = "createClient"
    /\ routeCalls' = Append(routeCalls, "createSupabaseServerClient")
    /\ routeSeen' = [routeSeen EXCEPT !.client = IF ok THEN "ok" ELSE "throws"]
    /\ IF ok
       THEN /\ routePc' = "query"
            /\ UNCHANGED <<routeResponses, routeEscaped, served>>
       ELSE RouteCatch
    /\ UNCHANGED uiVars

\* lines 8-14
GETQuery(result) ==
    /\ routePc = "query"
    /\ routeCalls' = Append(routeCalls, "query categories")
    /\ routeSeen' = [routeSeen EXCEPT !.result = Some(result)]
    /\ IF result.outcome = "data"
       THEN /\ routeResponses' = Append(routeResponses, OkResponse(result.data))
            /\ routeEscaped' = FALSE
            /\ routePc' = "idle"
            /\ served' = served + 1
       ELSE RouteCatch
    /\ UNCHANGED uiVars

(***************************************************************************)
(* Specifications.                                                         *)
(***************************************************************************)
TypeInputs == {"all", "income", "expense"}
DateRangeInputs == {"all", "today", "week", "month"}    \* lines 636-639
SortInputs == {"newest", "oldest", "highest", "lowest"} \* lines 685-688
SearchInputs == {<<>>, <<"P", "A">>}

RouteIdle ==
    /\ routePc = "idle"
    /\ routeCalls = <<>>
    /\ routeResponses = <<>>
    /\ routeEscaped = FALSE
    /\ routeSeen = NothingSeen
    /\ served = 0

\* the component is mounted over an empty store
Mounted ==
    /\ transactions = <<>>
    /\ loading = FALSE
    /\ filters = DefaultFilters
    /\ currentPage = 1
    /\ isLoading = TRUE
    /\ deleteId = Null
    /\ selectedTransaction = Null
    /\ deletions = 0
    /\ storeCall = Null
    /\ download = Null

\* Spec: the list view over a backend of MaxTx rows, more than one page
Init ==
    /\ Mounted
    /\ today \in PagedTodayDays
    /\ RouteIdle

FetchSizes == {0, 1, MaxTx}

Next ==
    \/ fetchTransactions
    \/ \E n \in FetchSizes : FetchDone(Rows(1..n, n))
    \/ \E v \in {"all", "expense"} : updateFilter("type", v)
    \/ \E v \in {"newest", "lowest"} : updateFilter("sortOption", v)
    \/ resetFilters
    \/ LoadingTimer
    \/ PrevPage
    \/ NextPage
    \/ \E i \in PageButtons : GoToPage(i)
    \/ \E i \in 1..Len(PressableRows) : PressDeleteOnRow(PressableRows[i])
    \/ \E i \in 1..Len(PressableRows) : OpenDetails(PressableRows[i])
    \/ CloseDetails
    \/ PressDeleteInDetails
    \/ CloseDeleteDialog
    \/ \E ok \in BOOLEAN : ConfirmDelete(ok)
    \/ exportCSV

Spec == Init /\ [][Next]_vars

\* SpecView: every filter and sort option over every backend of at most MaxView rows
InitView ==
    /\ Mounted
    /\ today \in TodayDays
    /\ RouteIdle

NextView ==
    \/ fetchTransactions
    \/ \E S \in SUBSET (1..MaxView) : FetchDone(Rows(S, MaxView))
    \/ \E v \in TypeInputs : updateFilter("type", v)
    \/ \E v \in uniqueCategories : updateFilter("category", v)
    \/ \E v \in DateRangeInputs : updateFilter("dateRange", v)
    \/ \E v \in SortInputs : updateFilter("sortOption", v)
    \/ \E v \in SearchInputs : updateFilter("searchTerm", v)
    \/ resetFilters
    \/ LoadingTimer

SpecView == InitView /\ [][NextView]_vars

\* SpecCsv: exportCSV over categories and descriptions of any characters
CsvAlphabet == {"a", ",", "\"", "\n"}
CsvStrings == UNION {[1..k -> CsvAlphabet] : k \in 0..MaxStrLen}

\* n transactions that carry the strings c and d, in turn as category and description
CsvRows(c, d, n) ==
    [i \in 1..n |->
        IF i % 2 = 1
        THEN [Tx(i) EXCEPT !.category = c, !.description = d]
        ELSE [Tx(i) EXCEPT !.category = (IF d = Null THEN c ELSE d[1]),
                           !.description = Some(c)]]

InitCsv ==
    /\ \E c \in CsvStrings, d \in {Null} \cup {Some(x) : x \in CsvStrings}, n \in 1..MaxRows :
          transactions = CsvRows(c, d, n)
    /\ loading = FALSE
    /\ filters = DefaultFilters
    /\ currentPage = 1
    /\ isLoading \in BOOLEAN
    /\ deleteId = Null
    /\ selectedTransaction = Null
    /\ deletions = 0
    /\ storeCall = Null
    /\ download = Null
    /\ today = 35
    /\ RouteIdle

NextCsv ==
    \/ exportCSV
    \/ \E v \in {"newest", "oldest"} : updateFilter("sortOption", v)

SpecCsv == InitCsv /\ [][NextCsv]_vars

\* SpecRoute: the categories route serving requests one after another
InitRoute ==
    /\ Mounted
    /\ today = 35
    /\ RouteIdle

NextRoute ==
    \/ GETStart
    \/ \E ok \in BOOLEAN : GETCreateClient(ok)
    \/ \E result \in QueryResults : GETQuery(result)

SpecRoute == InitRoute /\ [][NextRoute]_vars

\* SpecPages: the pagination controls over stores of two to MaxPages pages
PagedSizes == {itemsPerPage * (k - 1) + 1 : k \in 2..MaxPages}

InitPages ==
    /\ Mounted
    /\ today \in PagedTodayDays
    /\ RouteIdle

NextPages ==
    \/ fetchTransactions
    \/ \E n \in PagedSizes : FetchDone(Rows(1..n, n))
    \/ LoadingTimer
    \/ PrevPage
    \/ NextPage
    \/ \E i \in PageButtons : GoToPage(i)

SpecPages == InitPages /\ [][NextPages]_vars

(***************************************************************************)
(* Properties.                                                             *)
(***************************************************************************)
Occurrences(seq, x) == Cardinality({i \in 1..Len(seq) : seq[i] = x})

\* term is a substring of text when letter case is ignored
ContainsIgnoringCase(text, term) ==
    \E off \in 0..(Len(text) - Len(term)) :
        \A j \in 1..Len(term) : LowerChar(text[off + j]) = LowerChar(term[j])

\* d lies in the Sunday-to-Saturday week that holds now
InWeekFromSunday(d, now) ==
    \E s \in (now - 6)..now : getDay(s) = 0 /\ d \in s..(s + 6)

\* d lies in the Monday-to-Sunday week that holds now
InWeekFromMonday(d, now) ==
    \E m \in (now - 6)..now : getDay(m) = 1 /\ d \in m..(m + 6)

InMonthOf(d, now) == MonthSlot(d, 1) = MonthSlot(now, 1)

\* the four filters as C1 words them
ClaimedPass(tx) ==
    /\ filters.type = "all" \/ filters.type = tx.type
    /\ filters.category = AllCategory \/ filters.category = tx.category
    /\ \/ filters.searchTerm = <<>>
       \/ ContainsIgnoringCase(tx.category, filters.searchTerm)
       \/ /\ tx.description # Null
          /\ ContainsIgnoringCase(tx.description[1], filters.searchTerm)
    /\ \/ filters.dateRange = "all"
       \/ filters.dateRange = "today" /\ tx.date = today
       \/ filters.dateRange = "week" /\ InWeekFromSunday(tx.date, today)
       \/ filters.dateRange = "month" /\ InMonthOf(tx.date, today)

\* C1: when the store is not loading, a store transaction is in the processed list
\* exactly when it passes the type, category, search and date-range filters together;
\* it is there once, and the processed list holds nothing that is not in the store.
C1_FilterContract ==
    ~loading =>
        LET processed == processedTransactions
        IN  /\ \A i \in 1..Len(transactions) :
                   Occurrences(processed, transactions[i])
                       = (IF ClaimedPass(transactions[i]) THEN 1 ELSE 0)
            /\ \A j \in 1..Len(processed) :
                   \E i \in 1..Len(transactions) : transactions[i] = processed[j]

\* all four filters are set, one transaction passes them and another does not
C1_Witness ==
    /\ ~loading
    /\ filters.type # "all"
    /\ filters.category # AllCategory
    /\ filters.searchTerm # <<>>
    /\ filters.dateRange # "all"
    /\ processedTransactions # <<>>
    /\ Len(processedTransactions) < Len(transactions)

IsSortedBy(seq, option) ==
    \A i \in 1..(Len(seq) - 1) :
        CASE option = "newest" -> seq[i].date >= seq[i + 1].date
          [] option = "oldest" -> seq[i].date <= seq[i + 1].date
          [] option = "highest" -> seq[i].amount >= seq[i + 1].amount
          [] option = "lowest" -> seq[i].amount <= seq[i + 1].amount

IsPermutation(a, b) ==
    /\ Len(a) = Len(b)
    /\ \A i \in 1..Len(a) : Occurrences(a, a[i]) = Occurrences(b, a[i])

\* C2: for every sort option the processed list is a permutation of the filtered
\* transactions, in non-increasing date order for 'newest', non-decreasing date order
\* for 'oldest', non-increasing amount order for 'highest' and non-decreasing amount
\* order for 'lowest'.
C2_SortContract ==
    ~loading =>
        /\ IsPermutation(processedTransactions, FilterTxs(transactions, filters, today))
        /\ IsSortedBy(processedTransactions, filters.sortOption)

\* 'highest' has reordered at least three transactions of differing amounts
C2_Witness ==
    /\ ~loading
    /\ filters.sortOption = "highest"
    /\ Len(processedTransactions) >= 3
    /\ processedTransactions # FilterTxs(transactions, filters, today)
    /\ \E i \in 1..Len(processedTransactions) :
           processedTransactions[i].amount # processedTransactions[1].amount

RECURSIVE ConcatPages(_, _)
\* pages 1..p of the processed list, one after the other
ConcatPages(processed, p) ==
    IF p = 0 THEN <<>>
    ELSE ConcatPages(processed, p - 1) \o PageSlice(processed, p)

\* C3: totalPages is ceil(n / 10) for n processed transactions; page p holds exactly
\* the elements at positions (p-1)*10 .. min(p*10, n)-1; every page but the last holds
\* 10 and the last between 1 and 10; the pages one after the other give the processed
\* list, each transaction on exactly one page.
C3_PaginationPartition ==
    LET processed == processedTransactions
        n == Len(processed)
        totalPages == PaginatedOf(processed, currentPage, today).totalPages
        Page(p) == PageSlice(processed, p)
        Shown(p) == Flatten(PaginatedOf(processed, p, today).groups)
    IN  /\ totalPages * itemsPerPage >= n
        /\ n > 0 => (totalPages - 1) * itemsPerPage < n
        /\ n = 0 => totalPages = 0
        /\ \A p \in 1..totalPages :
               /\ Page(p) = [i \in 1..(Min(p * itemsPerPage, n) - (p - 1) * itemsPerPage)
                                |-> processed[(p - 1) * itemsPerPage + i]]
               /\ IsPermutation(Shown(p), Page(p))
               /\ p < totalPages => Len(Page(p)) = itemsPerPage
               /\ p = totalPages => Len(Page(p)) \in 1..itemsPerPage
        /\ ConcatPages(processed, totalPages) = processed
        /\ \A i \in 1..n :
               Cardinality({p \in 1..totalPages : Occurrences(Page(p), processed[i]) = 1}) = 1

\* the processed list fills one page and part of a second
C3_Witness ==
    /\ Len(processedTransactions) > itemsPerPage
    /\ Len(processedTransactions) % itemsPerPage # 0
    /\ paginatedData.totalPages = 2
    /\ currentPage = 2

\* C4: the cards of the page, read top to bottom through the groups as rendered, are
\* in the order of the sort option, which is their order in the processed list.
C4_ViewFollowsSort ==
    visibleRows # <<>> => visibleRows = PageSlice(processedTransactions, currentPage)

\* the grouping rules as C5 words them
ClaimedTitle(tx) ==
    IF tx.date = today THEN TitleToday
    ELSE IF tx.date = today - 1 THEN TitleYesterday
    ELSE IF InWeekFromMonday(tx.date, today) THEN TitleThisWeek
    ELSE IF InMonthOf(tx.date, today) THEN TitleThisMonth
    ELSE formatMonthYear(tx.date)

FixedTitles == {TitleToday, TitleYesterday, TitleThisWeek, TitleThisMonth}

\* C5: every transaction of the current page is in exactly one group, the one of the
\* first rule that matches among today, yesterday, same Monday-started week, same month,
\* else its own month and year; no group is empty, no two groups share a title, and a
\* group keeps its transactions in page order.
C5_DateBuckets ==
    LET page == PageSlice(processedTransactions, currentPage)
        groups == paginatedData.groups
    IN  /\ \A i \in 1..Len(page) :
               \E g \in 1..Len(groups) :
                   /\ groups[g].title = ClaimedTitle(page[i])
                   /\ Occurrences(groups[g].transactions, page[i]) = 1
                   /\ \A h \in 1..Len(groups) :
                          h # g => Occurrences(groups[h].transactions, page[i]) = 0
        /\ \A g \in 1..Len(groups) :
               /\ groups[g].transactions # <<>>
               /\ groups[g].transactions
                      = SelectSeq(page, LAMBDA tx : ClaimedTitle(tx) = groups[g].title)
               /\ \A h \in 1..Len(groups) : h # g => groups[h].title # groups[g].title

\* a page with a group of several transactions, a month-and-year group and a
\* transaction of yesterday that also lies in this week
C5_Witness ==
    /\ \E g \in 1..Len(paginatedData.groups) : Len(paginatedData.groups[g].transactions) >= 2
    /\ \E g \in 1..Len(paginatedData.groups) : paginatedData.groups[g].title \notin FixedTitles
    /\ \E g \in 1..Len(paginatedData.groups) :
           /\ paginatedData.groups[g].title = TitleYesterday
           /\ InWeekFromMonday(paginatedData.groups[g].date, today)

\* the five fields a CSV reader should give for tx
RowFields(tx) ==
    <<formatYMD(tx.date),
      <<IF tx.type = "income" THEN "[rai-rap]" ELSE "[rai-chai]">>,
      tx.category,
      IF tx.description = Null THEN <<>> ELSE tx.description[1],
      Digits(tx.amount)>>

\* the records after the header
DataRows(text) == Tail(ParseCsv(text))

\* C6 as stated: whenever export succeeds the data rows are the rows of the page on
\* display, one row for each and none for a transaction that is not on that page.
C6_ExportsVisibleRows ==
    download # Null =>
        LET page == PageSlice(processedTransactions, currentPage)
        IN  IsPermutation(DataRows(download[1]),
                          [i \in 1..Len(page) |-> RowFields(page[i])])

\* C6 amended: whenever export succeeds the data rows are the rows of the whole
\* processed (filtered and sorted) list, every page of it, in the order of that list.
C6_ExportsProcessedList ==
    download # Null =>
        DataRows(download[1])
            = [i \in 1..Len(processedTransactions) |-> RowFields(processedTransactions[i])]

\* an export of a list longer than a page
C6_Witness ==
    /\ download # Null
    /\ Len(processedTransactions) > itemsPerPage
    /\ Len(visibleRows) = itemsPerPage

\* C7: the exported text is the five-column header followed by one record for each
\* exported transaction, and a reader with standard CSV quoting gets five fields from
\* every record, the third equal to the category and the fourth to the description (empty
\* when absent), whatever commas, quotes and line breaks they hold.
C7_CsvRoundTrip ==
    download # Null =>
        LET text == download[1]
            records == ParseCsv(text)
            txs == processedTransactions
        IN  /\ SubSeq(text, 1, Len(csvHeader)) = csvHeader
            /\ Len(records) = 1 + Len(txs)
            /\ records[1] = <<<<"[wan-thi]">>, <<"[praphet]">>, <<"[muat-mu]">>,
                              <<"[rai-la-iat]">>, <<"[chamnuan-ngoen]">>>>
            /\ \A i \in 1..Len(txs) :
                   /\ Len(records[i + 1]) = 5
                   /\ records[i + 1][3] = txs[i].category
                   /\ records[i + 1][4] = (IF txs[i].description = Null THEN <<>>
                                           ELSE txs[i].description[1])

HasChar(str, c) == \E i \in 1..Len(str) : str[i] = c

\* an export of two transactions, one with an absent description, whose strings hold a
\* quote, a comma and a line break
C7_Witness ==
    /\ download # Null
    /\ Len(processedTransactions) = 2
    /\ \E i \in 1..2 : processedTransactions[i].description = Null
    /\ \E i \in 1..2 : /\ HasChar(processedTransactions[i].category, "\"")
                       /\ HasChar(processedTransactions[i].category, "\n")
    /\ \E i \in 1..2 : /\ processedTransactions[i].description # Null
                       /\ HasChar(processedTransactions[i].description[1], "\"")

DeleteCalled(call) == call # Null /\ call[1].op = "deleteTransaction"

\* C8: a step calls deleteTransaction only if it is the confirm action of the delete
\* dialog, and then with the id deleteId holds, which is not null; the delete button
\* of a card or of the details modal, and closing the dialog, call nothing.
C8_DeleteOnlyOnConfirm ==
    [][/\ DeleteCalled(storeCall') =>
            /\ deleteId # Null
            /\ storeCall'[1].id = deleteId[1]
            /\ \E ok \in BOOLEAN : ConfirmDelete(ok)
       /\ (deleteId' # deleteId /\ deleteId' # Null) =>
            (~DeleteCalled(storeCall') /\ transactions' = transactions)
       /\ (deleteId # Null /\ deleteId' = Null /\ ~DeleteCalled(storeCall')) =>
            transactions' = transactions]_vars

\* a deletion was confirmed and the store has dropped the transaction
C8_Witness ==
    /\ DeleteCalled(storeCall)
    /\ deleteId = Null
    /\ \A i \in 1..Len(transactions) : transactions[i].id # storeCall[1].id

CountCalls(calls, name) == Cardinality({i \in 1..Len(calls) : calls[i] = name})

\* C9: a request issues at most one query, after nothing but creating the client, and
\* never a second one; once it is over it has produced exactly one response and let no
\* error out: 200 with the rows (none when data is null) if the query reported no error,
\* 500 with 'Failed to fetch categories' if creating the client threw or the query failed.
C9_RoutePassThrough ==
    /\ CountCalls(routeCalls, "query categories") <= 1
    /\ CountCalls(routeCalls, "createSupabaseServerClient") <= 1
    /\ \A i \in 1..Len(routeCalls) :
           routeCalls[i] \in {"createSupabaseServerClient", "query categories"}
    /\ Len(routeResponses) <= 1
    /\ ~routeEscaped
    /\ (routePc = "idle" /\ served > 0) =>
           /\ Len(routeResponses) = 1
           /\ IF routeSeen.client = "throws"
              THEN /\ routeResponses[1] = [rows |-> <<>>, status |-> 500,
                                           error |-> "Failed to fetch categories"]
                   /\ CountCalls(routeCalls, "query categories") = 0
              ELSE /\ routeSeen.result # Null
                   /\ CountCalls(routeCalls, "query categories") = 1
                   /\ IF routeSeen.result[1].outcome = "data"
                      THEN /\ routeResponses[1].status = 200
                           /\ routeResponses[1].error = ""
                           /\ routeResponses[1].rows
                                  = (IF routeSeen.result[1].data = Null THEN <<>>
                                     ELSE routeSeen.result[1].data[1])
                      ELSE routeResponses[1] = [rows |-> <<>>, status |-> 500,
                                                error |-> "Failed to fetch categories"]

\* a request whose query reported an error has been answered with 500
C9_Witness ==
    /\ routePc = "idle"
    /\ served > 1
    /\ routeSeen.result # Null
    /\ routeSeen.result[1].outcome = "error"
    /\ routeResponses = <<FailResponse>>

\* C10: with the store loaded, 1 <= currentPage <= max(1, totalPages), and the page on
\* display holds a transaction whenever the filtered list is not empty.
C10_PageInRange ==
    ~loading =>
        /\ 1 <= currentPage
        /\ currentPage <= Max(1, paginatedData.totalPages)
        /\ processedTransactions # <<>> =>
               PageSlice(processedTransactions, currentPage) # <<>>

FilterKeys == {"type", "category", "searchTerm", "dateRange", "sortOption"}

\* the values a filter control can hand to updateFilter
FilterInputs(key) ==
    CASE key = "type" -> TypeInputs
      [] key = "category" -> {AllCategory, Food, Pay, Fuel}
      [] key = "searchTerm" -> SearchInputs
      [] key = "dateRange" -> DateRangeInputs
      [] key = "sortOption" -> SortInputs

\* C11: a step of updateFilter(key, value) leaves filters[key] = value, keeps the other
\* four filter fields, sets currentPage to 1 whatever the page was and also when value
\* is the old value, and leaves deleteId, selectedTransaction and the store's
\* transactions unchanged.
C11_UpdateFilterFrame ==
    [][\A key \in FilterKeys : \A value \in FilterInputs(key) :
           updateFilter(key, value) =>
               /\ filters'[key] = value
               /\ \A k \in FilterKeys \ {key} : filters'[k] = filters[k]
               /\ currentPage' = 1
               /\ deleteId' = deleteId
               /\ selectedTransaction' = selectedTransaction
               /\ transactions' = transactions]_vars

\* a filter was changed over a list of two pages, and the first page is on display
C11_Witness ==
    /\ ~loading
    /\ filters.sortOption = "lowest"
    /\ filters.type = "all"
    /\ isLoading
    /\ paginatedData.totalPages = 2
    /\ currentPage = 1

\* C12: a step of resetFilters ends with type 'all', category 'all', dateRange 'all',
\* sortOption 'newest', an empty searchTerm and currentPage 1; the state it ends in is
\* one that another resetFilters leaves as it is; and in that state the processed list
\* holds every transaction of the store, newest first.
C12_ResetFilters ==
    [][resetFilters =>
           /\ filters'.type = "all"
           /\ filters'.category = <<"a", "l", "l">>
           /\ filters'.dateRange = "all"
           /\ filters'.sortOption = "newest"
           /\ filters'.searchTerm = <<>>
           /\ currentPage' = 1
           /\ ~loading' /\ deleteId' = Null /\ selectedTransaction' = Null
           /\ filters' = DefaultFilters /\ isLoading' /\ storeCall' = Null /\ download' = Null
           /\ \A processed \in {ProcessedOf(transactions', loading', filters', today')} :
                  /\ Len(processed) = Len(transactions')
                  /\ \A i \in 1..Len(transactions') :
                         \E j \in 1..Len(processed) : processed[j].id = transactions'[i].id
                  /\ \A j \in 1..Len(processed) :
                         \E i \in 1..Len(transactions') : processed[j] = transactions'[i]
                  /\ IsSortedBy(processed, "newest")]_vars

\* the filters are the default ones over a store of two pages, on the first page with
\* the skeleton of a filter change on screen
C12_Witness ==
    /\ ~loading
    /\ NoDialog
    /\ filters = DefaultFilters
    /\ currentPage = 1
    /\ isLoading
    /\ Len(transactions) > itemsPerPage
    /\ Len(processedTransactions) = Len(transactions)

\* C13: on every page, each transaction of a group listed earlier has a date not
\* earlier than the date of each transaction of a group listed later, for every sort
\* option and every set of dates.
C13_GroupsNewestFirst ==
    ~loading =>
        \A g \in 1..Len(paginatedData.groups) : \A h \in (g + 1)..Len(paginatedData.groups) :
            \A i \in 1..Len(paginatedData.groups[g].transactions) :
                \A j \in 1..Len(paginatedData.groups[h].transactions) :
                    paginatedData.groups[g].transactions[i].date
                        >= paginatedData.groups[h].transactions[j].date

\* C14: when the date range filter is 'week', every transaction shown is in a group
\* titled today, yesterday or this week, and none in the group of this month or of a
\* month and year, for every day that today can be and every transaction date.
C14_WeekFilterMatchesWeekGroup ==
    (~loading /\ filters.dateRange = "week") =>
        \A g \in 1..Len(paginatedData.groups) :
            paginatedData.groups[g].title \in {TitleToday, TitleYesterday, TitleThisWeek}

\* the numbers on the page-number buttons, left to right
ShownPages(totalPages, page) ==
    [b \in 1..Min(5, totalPages) |-> pageToShow(b - 1, totalPages, page)]

\* C15: with two pages or more and currentPage within 1..totalPages, the buttons show
\* min(5, totalPages) consecutive page numbers, all within 1..totalPages, one of which
\* is currentPage; and pressing a button sets currentPage to the number it shows.
C15_PageButtons ==
    /\ [](LET totalPages == paginatedData.totalPages
              shown == ShownPages(totalPages, currentPage)
          IN  (ListShown /\ totalPages >= 2 /\ currentPage \in 1..totalPages) =>
                  /\ PageButtons = 0..(Min(5, totalPages) - 1)
                  /\ Len(shown) = Min(5, totalPages)
                  /\ \A b \in 1..Len(shown) : shown[b] \in 1..totalPages
                  /\ \A b \in 1..(Len(shown) - 1) : shown[b + 1] = shown[b] + 1
                  /\ \E b \in 1..Len(shown) : shown[b] = currentPage)
    /\ [][\A i \in PageButtons :
              GoToPage(i) =>
                  /\ currentPage' = ShownPages(paginatedData.totalPages, currentPage)[i + 1]
                  /\ UNCHANGED <<transactions, filters>>]_vars

\* the fourth of MaxPages pages is on display: the buttons show the pages around it
C15_Witness ==
    /\ ListShown
    /\ paginatedData.totalPages = MaxPages
    /\ currentPage = 4
    /\ ShownPages(paginatedData.totalPages, currentPage)[1] = 2

====
